---- MODULE Spec2Model ----
(***************************************************************************)
(* Model of the social-graph analytics engine (services/graphUtils.ts),    *)
(* the CSV ingestion and report handlers of App.tsx and the text           *)
(* generation call of services/geminiService.ts.                           *)
(*                                                                         *)
(* Six specifications share the variables below:                           *)
(*   SpecMetrics  buildGraphFromLinks and calculateMetrics applied to      *)
(*                every bounded edge list (calculateMetrics may be re-run  *)
(*                on the node objects it has already written to);          *)
(*   SpecGen      generateSampleData(n), one random draw per step;         *)
(*   SpecGenFair  SpecGen with fairness on its loop steps;                 *)
(*   SpecRun      one calculateMetrics call, one label update per step;    *)
(*   Spec         the App component: file upload, report generation and    *)
(*                node selection;                                          *)
(*   SpecLoads    the App component with sample loads as well.             *)
(***************************************************************************)
EXTENDS Integers, Sequences, FiniteSets, TLC

VARIABLES
    edges,          \* SpecMetrics: the edge list handed to buildGraphFromLinks
    pc,             \* SpecMetrics: "input" | "built" | "computed"
    runs,           \* SpecMetrics: number of calculateMetrics calls so far
    graphData,      \* GraphData {nodes, links} (App state / calculateMetrics argument)
    metrics,        \* NetworkMetrics
    file,           \* Spec: text of the file offered to the upload input
    analysisReport, \* Spec: App state analysisReport
    analysisState,  \* Spec: App state analysisState
    requests,       \* Spec: text generation calls in flight
    uncaught,       \* Spec: an exception escaped a handler ("none" or its name)
    selectedNode,   \* Spec: id of the App state selectedNode, or NoNode
    resolvedLinks,  \* Spec: the links whose ends d3 has replaced by node objects
    gen,            \* SpecGen: locals of generateSampleData
    run             \* SpecRun: locals of a calculateMetrics call in progress

vars == <<edges, pc, runs, graphData, metrics, file, analysisReport,
          analysisState, requests, uncaught, selectedNode, resolvedLinks,
          gen, run>>

(***************************************************************************)
(* Bounds of the model.                                                    *)
(***************************************************************************)
MaxLinks == 3      \* longest edge list given to buildGraphFromLinks
MaxRuns == 2       \* calculateMetrics calls on one GraphData object
MaxN == 7          \* largest n given to generateSampleData
MaxRows == 2       \* most lines of an uploaded file after its header
MaxRequests == 1   \* most text generation calls in flight

\* node ids are strings, modelled as sequences of characters
IdChars == <<"A", "B", "C", "D">>
Ids == {<<IdChars[i]>> : i \in 1..Len(IdChars)}
IdNum(id) == CHOOSE i \in 1..Len(IdChars) : id = <<IdChars[i]>>

(***************************************************************************)
(* Exact arithmetic.  JS numbers are modelled exactly: a quotient is a     *)
(* record [kind, num, den] with kind "nan" / "inf" for 0/0 and x/0.        *)
(* PageRank values are fractions with a numerator too large for a machine  *)
(* integer: naturals in base Base, least significant digit first, <<>> = 0 *)
(***************************************************************************)
Base == 1000 * 1000

Rest(s) == IF s = <<>> THEN <<>> ELSE Tail(s)
Digit(s) == IF s = <<>> THEN 0 ELSE Head(s)

RECURSIVE BigAddC(_, _, _)
BigAddC(a, b, c) ==
    IF a = <<>> /\ b = <<>>
    THEN (IF c = 0 THEN <<>> ELSE <<c>>)
    ELSE LET s == Digit(a) + Digit(b) + c
         IN  <<s % Base>> \o BigAddC(Rest(a), Rest(b), s \div Base)

BigAdd(a, b) == BigAddC(a, b, 0)

RECURSIVE BigMulC(_, _, _)
\* a * k + c for a small multiplier k >= 1
BigMulC(a, k, c) ==
    IF a = <<>>
    THEN (IF c = 0 THEN <<>> ELSE <<c % Base>> \o BigMulC(<<>>, k, c \div Base))
    ELSE LET s == Head(a) * k + c
         IN  <<s % Base>> \o BigMulC(Tail(a), k, s \div Base)

BigMul(a, k) == IF k = 0 THEN <<>> ELSE BigMulC(a, k, 0)

BigOfNat(n) == BigMul(<<1>>, n)

RECURSIVE BigLessFrom(_, _, _)
\* a < b for two digit sequences of equal length, compared from digit i down
BigLessFrom(a, b, i) ==
    IF i = 0 THEN FALSE
    ELSE IF a[i] # b[i] THEN a[i] < b[i]
    ELSE BigLessFrom(a, b, i - 1)

BigLess(a, b) ==
    IF Len(a) # Len(b) THEN Len(a) < Len(b) ELSE BigLessFrom(a, b, Len(a))

BigLeq(a, b) == a = b \/ BigLess(a, b)

RECURSIVE Gcd(_, _)
Gcd(a, b) == IF b = 0 THEN a ELSE Gcd(b, a % b)

Lcm(a, b) == (a * b) \div Gcd(a, b)

\* the sequence <<F(1), ..., F(n)>>
RECURSIVE Tabulate(_, _)
Tabulate(F(_), n) == IF n = 0 THEN <<>> ELSE Append(Tabulate(F, n - 1), F(n))

\* the JS quotient a / b of two integers
Quot(a, b) ==
    IF b = 0
    THEN [kind |-> IF a = 0 THEN "nan" ELSE "inf", num |-> 0, den |-> 0]
    ELSE [kind |-> "num", num |-> a, den |-> b]

IsZero(q) == q.kind = "num" /\ q.num = 0

(***************************************************************************)
(* buildGraphFromLinks (graphUtils.ts 4-38)                                *)
(***************************************************************************)
Link(s, t) == [source |-> s, target |-> t]

ZeroRank == [num |-> <<>>, den |-> <<1>>]

NewNode(id) ==
    [id |-> id, degree |-> 0, inDegree |-> 0, outDegree |-> 0,
     betweenness |-> 0, pagerank |-> ZeroRank, group |-> 0]

HasNode(nodes, id) == \E i \in 1..Len(nodes) : nodes[i].id = id

\* a variant of AddIfAbsent that adds a node for every endpoint it is given
AddAlways(nodes, id) == Append(nodes, NewNode(id))

\* nodeMap.set(id, ...) unless nodeMap.has(id); a Map keeps insertion order
AddIfAbsent(nodes, id) ==
    IF HasNode(nodes, id) THEN nodes ELSE Append(nodes, NewNode(id))

\* a variant of BuildLoop that skips an edge it has already appended
RECURSIVE BuildLoopDedup(_, _, _)
BuildLoopDedup(links, k, acc) ==
    IF k > Len(links) THEN acc
    ELSE LET withSource == AddIfAbsent(acc.nodes, links[k].source)
             withTarget == AddIfAbsent(withSource, links[k].target)
             seen == \E j \in 1..Len(acc.links) : acc.links[j] = links[k]
         IN  BuildLoopDedup(links, k + 1,
                 [nodes |-> withTarget,
                  links |-> IF seen THEN acc.links
                            ELSE Append(acc.links, links[k])])

\* a variant of BuildLoop that makes a node for the source of an edge only
RECURSIVE BuildLoopSourcesOnly(_, _, _)
BuildLoopSourcesOnly(links, k, acc) ==
    IF k > Len(links) THEN acc
    ELSE BuildLoopSourcesOnly(links, k + 1,
             [nodes |-> AddIfAbsent(acc.nodes, links[k].source),
              links |-> Append(acc.links,
                           [source |-> links[k].source,
                            target |-> links[k].target])])

RECURSIVE BuildLoop(_, _, _)
BuildLoop(links, k, acc) ==
    IF k > Len(links) THEN acc
    ELSE LET withSource == AddIfAbsent(acc.nodes, links[k].source)
             withTarget == AddIfAbsent(withSource, links[k].target)
         IN  BuildLoop(links, k + 1,
                 [nodes |-> withTarget,
                  links |-> Append(acc.links,
                               [source |-> links[k].source,
                                target |-> links[k].target])])

buildGraphFromLinks(links) ==
    BuildLoop(links, 1, [nodes |-> <<>>, links |-> <<>>])

(***************************************************************************)
(* calculateMetrics, step 1: degree centrality (graphUtils.ts 43-65)       *)
(***************************************************************************)
\* new Map(nodes.map(n => [n.id, n])).get(id): index of the node, 0 if absent
\* (for a repeated id the last entry wins)
NodeIdx(nodes, id) ==
    LET hits == {i \in 1..Len(nodes) : nodes[i].id = id}
    IN  IF hits = {} THEN 0 ELSE CHOOSE i \in hits : \A j \in hits : j <= i

\* a variant of ResetDegrees that leaves degree as the previous run set it
ResetDegreesKeepTotal(nodes) ==
    Tabulate(LAMBDA i : [nodes[i] EXCEPT !.inDegree = 0, !.outDegree = 0],
             Len(nodes))

\* a variant of ResetDegrees that leaves outDegree as the previous run set it
ResetDegreesKeepOut(nodes) ==
    Tabulate(LAMBDA i : [nodes[i] EXCEPT !.degree = 0, !.inDegree = 0],
             Len(nodes))

ResetDegrees(nodes) ==
    Tabulate(LAMBDA i :
        [nodes[i] EXCEPT !.degree = 0, !.inDegree = 0, !.outDegree = 0],
        Len(nodes))

\* variant: a self-loop counted once in degree
CountLinkLoopOnce(nodes, link) ==
    LET s == NodeIdx(nodes, link.source)
        t == NodeIdx(nodes, link.target)
    IN  IF s # 0 /\ t # 0
        THEN IF s = t
             THEN [nodes EXCEPT ![s].outDegree = @ + 1, ![s].inDegree = @ + 1,
                                ![s].degree = @ + 1]
             ELSE [[nodes EXCEPT ![s].outDegree = @ + 1, ![s].degree = @ + 1]
                      EXCEPT ![t].inDegree = @ + 1, ![t].degree = @ + 1]
        ELSE nodes

\* the body of links.forEach for one link
CountLink(nodes, link) ==
    LET s == NodeIdx(nodes, link.source)
        t == NodeIdx(nodes, link.target)
    IN  IF s # 0 /\ t # 0
        THEN LET afterSource ==
                     [nodes EXCEPT ![s].outDegree = @ + 1, ![s].degree = @ + 1]
             IN  [afterSource EXCEPT ![t].inDegree = @ + 1, ![t].degree = @ + 1]
        ELSE nodes

RECURSIVE DegreeLoop(_, _, _)
DegreeLoop(nodes, links, k) ==
    IF k > Len(links) THEN nodes
    ELSE DegreeLoop(CountLink(nodes, links[k]), links, k + 1)

computeDegrees(nodes, links) == DegreeLoop(ResetDegrees(nodes), links, 1)

(***************************************************************************)
(* calculateMetrics, step 2: PageRank (graphUtils.ts 67-88)                *)
(*                                                                         *)
(* damping = 0.85 = DampNum / DampDen.  With L the least common multiple   *)
(* of the positive out-degrees, every rank of round t is a fraction over   *)
(* the common denominator N * (DampDen * L)^t, so a round is computed on   *)
(* the numerators alone:                                                   *)
(*   (1 - damping) / N            = (DampDen - DampNum) * L * (DampDen*L)^t*)
(*   rank(u) * damping / out(u)   = num(u) * DampNum * (L / out(u))        *)
(***************************************************************************)
DampNum == 17
DampDen == 20
PageRankIters == 20

RECURSIVE OutLcm(_, _)
OutLcm(nodes, i) ==
    IF i > Len(nodes) THEN 1
    ELSE IF nodes[i].outDegree > 0
         THEN Lcm(nodes[i].outDegree, OutLcm(nodes, i + 1))
         ELSE OutLcm(nodes, i + 1)

\* a variant of Share that forgets to divide by the out-degree
ShareUndivided(rankNum, L, outDegree) == BigMul(rankNum, DampNum * L)

\* share = (source.pagerank * damping) / source.outDegree
Share(rankNum, L, outDegree) == BigMul(rankNum, DampNum * (L \div outDegree))

\* the body of links.forEach in one round: newRanks[target] += share
RECURSIVE ShareLoop(_, _, _, _, _, _)
ShareLoop(nodes, links, L, rank, newRanks, k) ==
    IF k > Len(links) THEN newRanks
    ELSE LET s == NodeIdx(nodes, links[k].source)
             t == NodeIdx(nodes, links[k].target)
         IN  IF s # 0 /\ nodes[s].outDegree > 0 /\ t # 0
             THEN LET share == Share(rank[s], L, nodes[s].outDegree)
                  IN  ShareLoop(nodes, links, L, rank,
                          [newRanks EXCEPT ![t] = BigAdd(@, share)], k + 1)
             ELSE ShareLoop(nodes, links, L, rank, newRanks, k + 1)

\* rk = [rank |-> numerators after rk.round rounds, scale |-> (DampDen * L)^round]
RankRound(nodes, links, L, rk) ==
    LET base == BigMul(rk.scale, (DampDen - DampNum) * L)
        start == Tabulate(LAMBDA i : base, Len(nodes))
    IN  [rank  |-> ShareLoop(nodes, links, L, rk.rank, start, 1),
         scale |-> BigMul(rk.scale, DampDen * L),
         round |-> rk.round + 1]

\* for (let i = 0; i < 20; i++)
RECURSIVE RankIterate(_, _, _, _)
RankIterate(nodes, links, L, rk) ==
    IF rk.round >= PageRankIters THEN rk
    ELSE RankIterate(nodes, links, L, RankRound(nodes, links, L, rk))

\* nodes carry their degrees; every pagerank becomes [num, den]
pageRank(nodes, links) ==
    LET L == OutLcm(nodes, 1)
        init == [rank |-> Tabulate(LAMBDA i : <<1>>, Len(nodes)),
                 scale |-> <<1>>, round |-> 0]
        final == RankIterate(nodes, links, L, init)
        den == BigMul(final.scale, Len(nodes))
    IN  Tabulate(LAMBDA i :
            [nodes[i] EXCEPT !.pagerank = [num |-> final.rank[i], den |-> den]],
            Len(nodes))

RECURSIVE RankSumFrom(_, _)
RankSumFrom(nodes, i) ==
    IF i > Len(nodes) THEN <<>>
    ELSE BigAdd(nodes[i].pagerank.num, RankSumFrom(nodes, i + 1))

\* numerator of the sum of all ranks (over the common denominator)
RankSum(nodes) == RankSumFrom(nodes, 1)
\* the common denominator (1 for the empty vector, whose sum is 0)
RankDen(nodes) == IF nodes = <<>> THEN <<1>> ELSE nodes[1].pagerank.den

(***************************************************************************)
(* calculateMetrics, step 3: label propagation (graphUtils.ts 90-131)      *)
(* labels[i] is the label of nodes[i]; the label i.toString() of the       *)
(* source is the number i (0-based).                                       *)
(***************************************************************************)
CommunityIters == 5

\* variant: every node starts with the label "0"
InitLabelsShared(nodes) == Tabulate(LAMBDA i : 0, Len(nodes))

InitLabels(nodes) == Tabulate(LAMBDA i : i - 1, Len(nodes))

\* labels.get(id)
LabelOf(nodes, labels, id) == labels[NodeIdx(nodes, id)]

\* "Find neighbors": one push per link end that touches the node
RECURSIVE NeighborLabels(_, _, _, _, _)
NeighborLabels(nodes, links, labels, id, k) ==
    IF k > Len(links) THEN <<>>
    ELSE LET l == links[k]
             fromSource == IF l.source = id
                           THEN <<LabelOf(nodes, labels, l.target)>> ELSE <<>>
             fromTarget == IF l.target = id
                           THEN <<LabelOf(nodes, labels, l.source)>> ELSE <<>>
         IN  fromSource \o fromTarget
                 \o NeighborLabels(nodes, links, labels, id, k + 1)

\* a variant of MostFrequent in which a later label also wins with an equal
\* count
RECURSIVE MostFrequentLastWins(_, _, _, _, _)
MostFrequentLastWins(nl, k, frequency, maxFreq, bestLabel) ==
    IF k > Len(nl) THEN bestLabel
    ELSE LET lbl == nl[k]
             f == frequency[lbl] + 1
             counted == [frequency EXCEPT ![lbl] = f]
         IN  IF f >= maxFreq
             THEN MostFrequentLastWins(nl, k + 1, counted, f, lbl)
             ELSE MostFrequentLastWins(nl, k + 1, counted, maxFreq, bestLabel)

\* "Find most frequent label": a later label wins only with a strictly
\* higher count
RECURSIVE MostFrequent(_, _, _, _, _)
MostFrequent(nl, k, frequency, maxFreq, bestLabel) ==
    IF k > Len(nl) THEN bestLabel
    ELSE LET lbl == nl[k]
             f == frequency[lbl] + 1
             counted == [frequency EXCEPT ![lbl] = f]
         IN  IF f > maxFreq
             THEN MostFrequent(nl, k + 1, counted, f, lbl)
             ELSE MostFrequent(nl, k + 1, counted, maxFreq, bestLabel)

\* a variant of VisitNode that reads the neighbours' labels from the labels
\* the nodes started with, not from the label store
VisitNodeFromInitial(nodes, links, labels, v) ==
    LET nl == NeighborLabels(nodes, links, InitLabels(nodes), nodes[v].id, 1)
    IN  IF Len(nl) > 0
        THEN [labels EXCEPT ![v] =
                 MostFrequent(nl, 1, [x \in 0..(Len(nodes) - 1) |-> 0], 0, labels[v])]
        ELSE labels

\* the body of shuffledNodes.forEach for node v
VisitNode(nodes, links, labels, v) ==
    LET nl == NeighborLabels(nodes, links, labels, nodes[v].id, 1)
    IN  IF Len(nl) > 0
        THEN [labels EXCEPT ![v] =
                 MostFrequent(nl, 1, [x \in 0..(Len(nodes) - 1) |-> 0], 0, labels[v])]
        ELSE labels

\* one round in the visiting order given by order (a permutation of 1..N)
RECURSIVE RunRound(_, _, _, _, _)
RunRound(nodes, links, labels, order, k) ==
    IF k > Len(nodes) THEN labels
    ELSE RunRound(nodes, links, VisitNode(nodes, links, labels, order[k]),
                  order, k + 1)

\* [...nodes].sort(() => Math.random() - 0.5): any order of the nodes
ShuffleOrders(nodes) == Permutations(1..Len(nodes))

\* the label maps reachable after the remaining rounds from those in S
RECURSIVE Propagate(_, _, _, _)
Propagate(nodes, links, S, i) ==
    IF i >= CommunityIters THEN S
    ELSE Propagate(nodes, links,
             UNION {{RunRound(nodes, links, labels, order, 1) :
                        order \in ShuffleOrders(nodes)} : labels \in S},
             i + 1)

LabelOutcomes(nodes, links) == Propagate(nodes, links, {InitLabels(nodes)}, 0)

\* a variant of UniqueFrom that lists the distinct labels latest first
RECURSIVE UniqueFromPrepend(_, _, _)
UniqueFromPrepend(labels, k, acc) ==
    IF k > Len(labels) THEN acc
    ELSE UniqueFromPrepend(labels, k + 1,
             IF \E j \in 1..Len(acc) : acc[j] = labels[k]
             THEN acc ELSE <<labels[k]>> \o acc)

\* Array.from(new Set(labels.values())): distinct labels, first appearance
RECURSIVE UniqueFrom(_, _, _)
UniqueFrom(labels, k, acc) ==
    IF k > Len(labels) THEN acc
    ELSE UniqueFrom(labels, k + 1,
             IF \E j \in 1..Len(acc) : acc[j] = labels[k]
             THEN acc ELSE Append(acc, labels[k]))

UniqueLabels(labels) == UniqueFrom(labels, 1, <<>>)

\* Array.prototype.indexOf: 0-based, -1 when absent
IndexOf(seq, x) ==
    LET hits == {j \in 1..Len(seq) : seq[j] = x}
    IN  IF hits = {} THEN -1
        ELSE (CHOOSE j \in hits : \A h \in hits : j <= h) - 1

\* a variant of assignGroups that stores the label itself as the group
assignGroupsRawLabel(nodes, labels) ==
    Tabulate(LAMBDA i : [nodes[i] EXCEPT !.group = labels[i]], Len(nodes))

assignGroups(nodes, labels) ==
    Tabulate(LAMBDA i :
        [nodes[i] EXCEPT !.group = IndexOf(UniqueLabels(labels), labels[i])],
        Len(nodes))

(***************************************************************************)
(* calculateMetrics, step 4: global metrics (graphUtils.ts 133-147)        *)
(***************************************************************************)
\* a variant of Density for undirected graphs
DensityUndirected(n, e) == Quot(2 * e, n * (n - 1))

Density(n, e) == Quot(e, n * (n - 1))

AvgDegree(n, e) == Quot(e, n)

globalMetrics(nodes, links, uniqueLabels) ==
    [nodeCount  |-> Len(nodes),
     edgeCount  |-> Len(links),
     density    |-> Density(Len(nodes), Len(links)),
     avgDegree  |-> AvgDegree(Len(nodes), Len(links)),
     diameter   |-> "N/A (Compute Heavy)",
     modularity |-> Quot(Len(uniqueLabels), Len(nodes))]

\* every result calculateMetrics(data) can return, one per outcome of the
\* five shuffles
\* lines 127-147 for the final labels: the group ids and the returned object
groupsAndMetrics(ranked, links, labels) ==
    [updatedNodes |-> assignGroups(ranked, labels),
     metrics |-> globalMetrics(ranked, links, UniqueLabels(labels))]

calculateMetrics(data) ==
    LET ranked == pageRank(computeDegrees(data.nodes, data.links), data.links)
    IN  {groupsAndMetrics(ranked, data.links, labels) :
            labels \in LabelOutcomes(ranked, data.links)}

(***************************************************************************)
(* Initial App state (App.tsx 13-27)                                       *)
(***************************************************************************)
INITIAL_METRICS ==
    [nodeCount |-> 0, edgeCount |-> 0, density |-> Quot(0, 1),
     avgDegree |-> Quot(0, 1), diameter |-> "-", modularity |-> Quot(0, 1)]

EmptyGraph == [nodes |-> <<>>, links |-> <<>>]

GenIdle == [pc |-> "idle"]

RunIdle == [pc |-> "idle"]

\* selectedNode when no node is selected (App.tsx 25): null, written as the
\* empty id, which no loaded node has (App.tsx 65)
NoNode == <<>>

(***************************************************************************)
(* SpecMetrics: buildGraphFromLinks, then calculateMetrics (possibly again *)
(* on the same GraphData, whose node objects it updates in place).         *)
(***************************************************************************)
LinkSet == [source : Ids, target : Ids]

\* endpoint j of an edge list read as s1, t1, s2, t2, ...
Endpoint(e, j) ==
    IF j % 2 = 1 THEN e[(j + 1) \div 2].source ELSE e[j \div 2].target

\* The program only ever compares ids for equality, so edge lists are taken
\* up to a renaming of the ids: the ids appear in the order A, B, C, ...
FirstUseOrder(e) ==
    \A j \in 1..(2 * Len(e)) :
        \/ IdNum(Endpoint(e, j)) = 1
        \/ \E i \in 1..(j - 1) :
               IdNum(Endpoint(e, i)) + 1 >= IdNum(Endpoint(e, j))

EdgeLists ==
    {e \in UNION {[1..n -> LinkSet] : n \in 0..MaxLinks} : FirstUseOrder(e)}

InitMetrics ==
    /\ edges \in EdgeLists
    /\ pc = "input"
    /\ runs = 0
    /\ graphData = EmptyGraph
    /\ metrics = INITIAL_METRICS
    /\ file = <<>>
    /\ analysisReport = ""
    /\ analysisState = "IDLE"
    /\ requests = <<>>
    /\ uncaught = "none"
    /\ selectedNode = NoNode
    /\ resolvedLinks = {}
    /\ gen = GenIdle
    /\ run = RunIdle

Build ==
    /\ pc = "input"
    /\ graphData' = buildGraphFromLinks(edges)
    /\ pc' = "built"
    /\ UNCHANGED <<edges, runs, metrics, file, analysisReport, analysisState,
                   requests, uncaught, selectedNode, resolvedLinks, gen, run>>

Calc ==
    /\ pc \in {"built", "computed"}
    /\ runs < MaxRuns
    /\ \E r \in calculateMetrics(graphData) :
          /\ graphData' = [nodes |-> r.updatedNodes, links |-> graphData.links]
          /\ metrics' = r.metrics
    /\ pc' = "computed"
    /\ runs' = runs + 1
    /\ UNCHANGED <<edges, file, analysisReport, analysisState, requests,
                   uncaught, selectedNode, resolvedLinks, gen, run>>

NextMetrics == Build \/ Calc

SpecMetrics == InitMetrics /\ [][NextMetrics]_vars

(***************************************************************************)
(* Properties of calculateMetrics, checked under SpecMetrics.              *)
(***************************************************************************)
Computed == pc = "computed"

NodeIdsOf(g) == {g.nodes[i].id : i \in 1..Len(g.nodes)}

EndpointsOf(links) ==
    {links[k].source : k \in 1..Len(links)}
        \cup {links[k].target : k \in 1..Len(links)}

Nodes == graphData.nodes

NodeRange == 1..Len(Nodes)

SelfLoop(l) == l.source = l.target

\* C1: for every graph with at most one node (the empty graph, a single
\* node with self-loops) the reported density is exactly 0, never the
\* result of a division by zero.
C1_DensityZeroUpToOneNode ==
    (Computed /\ metrics.nodeCount <= 1) => IsZero(metrics.density)

\* C2: for the empty edge list, buildGraphFromLinks followed by
\* calculateMetrics reports nodeCount 0, edgeCount 0, density 0 and
\* avgDegree 0, all of them defined numbers.
C2_EmptyEdgeListMetrics ==
    (Computed /\ edges = <<>>) =>
        /\ metrics.nodeCount = 0
        /\ metrics.edgeCount = 0
        /\ IsZero(metrics.density)
        /\ IsZero(metrics.avgDegree)

RankNonNegative(r) ==
    /\ r.den # <<>>
    /\ \A d \in 1..Len(r.num) : r.num[d] >= 0
    /\ \A d \in 1..Len(r.den) : r.den[d] >= 0

NoDanglingNode == \A i \in NodeRange : Nodes[i].outDegree # 0

RankMass ==
    /\ \A i \in NodeRange : RankNonNegative(Nodes[i].pagerank)
    /\ BigLeq(RankSum(Nodes), RankDen(Nodes))
    /\ (RankSum(Nodes) = RankDen(Nodes)) <=> NoDanglingNode
    /\ (graphData.links = <<[source |-> <<"A">>, target |-> <<"B">>]>>
            => BigLess(RankSum(Nodes), RankDen(Nodes)))

\* C3 as stated: after calculateMetrics on any built graph every rank is
\* >= 0, the ranks sum to at most 1, and the sum is 1 exactly when no node
\* has outDegree 0 (for [(A,B)] the sum is below 1).
C3_RankMassAnyGraph == Computed => RankMass

\* C3 as amended: the same for every graph with at least one node; the
\* empty graph has no dangling node and an empty rank vector of sum 0.
C3_RankMassNonEmpty == (Computed /\ Len(Nodes) > 0) => RankMass

C3_Witness ==
    /\ Computed
    /\ graphData.links = <<[source |-> <<"A">>, target |-> <<"B">>]>>
    /\ Nodes[2].outDegree = 0
    /\ BigLess(RankSum(Nodes), RankDen(Nodes))

\* C8: after calculateMetrics, degree(v) = inDegree(v) + outDegree(v) for
\* every node, with duplicate edges and self-loops, also on a re-run over
\* nodes that carry the values of the previous run.
C8_DegreeIsInPlusOut ==
    Computed =>
        \A i \in NodeRange :
            Nodes[i].degree = Nodes[i].inDegree + Nodes[i].outDegree

C8_Witness ==
    /\ Computed
    /\ runs = 2
    /\ \E k \in 1..Len(graphData.links) : SelfLoop(graphData.links[k])
    /\ \E j, k \in 1..Len(graphData.links) :
          j # k /\ graphData.links[j] = graphData.links[k]
    /\ \E i \in NodeRange : Nodes[i].degree >= 3

GroupIds == {Nodes[i].group : i \in NodeRange}

\* uniqueLabels.length, as calculateMetrics reports it (modularity is
\* uniqueLabels.length / nodes.length)
CommunityCount ==
    IF metrics.modularity.kind = "num" THEN metrics.modularity.num ELSE 0

\* C9: after community detection, whatever the five visiting orders, the
\* community ids stored on the nodes are exactly 0 .. k-1 with k the number
\* of distinct final labels.
C9_GroupIdsContiguous == Computed => GroupIds = 0..(CommunityCount - 1)

C9_Witness ==
    /\ Computed
    /\ Len(Nodes) = 4
    /\ GroupIds = {0, 1}
    /\ Nodes[1].group = 0 /\ Nodes[4].group = 1

(***************************************************************************)
(* SpecRun: one calculateMetrics call taken step by step (degrees and      *)
(* ranks, then one step per node visit of the label propagation, then the  *)
(* group ids and the metrics).  The call is made on the GraphData object   *)
(* that an earlier call has written to (graphData) and, with the same      *)
(* visiting order, on a second object freshly built from the same edge     *)
(* list (FreshNodes, run.labels).  The shuffled order of a round is known   *)
(* to the loop alone, so its next element is drawn when the loop reaches   *)
(* it: run.visited holds the nodes the round has visited so far.           *)
(***************************************************************************)
\* SpecRun takes the edge lists over the ids A, B and C
RunIds == Ids \ {<<"D">>}

RunEdgeLists == {e \in EdgeLists : EndpointsOf(e) \subseteq RunIds}

InitRun ==
    /\ edges \in RunEdgeLists
    /\ pc = "input"
    /\ runs = 0
    /\ graphData = EmptyGraph
    /\ metrics = INITIAL_METRICS
    /\ file = <<>>
    /\ analysisReport = ""
    /\ analysisState = "IDLE"
    /\ requests = <<>>
    /\ uncaught = "none"
    /\ selectedNode = NoNode
    /\ resolvedLinks = {}
    /\ gen = GenIdle
    /\ run = RunIdle

\* the same call on node objects freshly built from the edge list: the nodes
\* after lines 41-88
FreshNodes ==
    LET built == buildGraphFromLinks(edges)
    IN  pageRank(computeDegrees(built.nodes, built.links), built.links)

\* lines 41-93: degrees, ranks and the initial labels
RunBegin ==
    /\ pc = "computed"
    /\ run.pc = "idle"
    /\ LET again == pageRank(computeDegrees(graphData.nodes, graphData.links),
                             graphData.links)
       IN  /\ run' = [pc |-> "visit", round |-> 0, visited |-> {},
                      left |-> graphData.nodes,
                      labels |-> InitLabels(FreshNodes),
                      labelsAgain |-> InitLabels(again)]
           /\ graphData' = [graphData EXCEPT !.nodes = again]
    /\ UNCHANGED <<edges, pc, runs, metrics, file, analysisReport,
                   analysisState, requests, uncaught, selectedNode,
                   resolvedLinks, gen>>

\* lines 98-124: the loop body for the next node of the shuffled order
RunVisit ==
    /\ run.pc = "visit"
    /\ run.round < CommunityIters
    /\ \E v \in (1..Len(graphData.nodes)) \ run.visited :
          run' = [run EXCEPT
                    !.visited = @ \cup {v},
                    !.labels = VisitNode(buildGraphFromLinks(edges).nodes,
                                         edges, @, v),
                    !.labelsAgain = VisitNode(graphData.nodes, graphData.links,
                                              @, v)]
    /\ UNCHANGED <<edges, pc, runs, graphData, metrics, file, analysisReport,
                   analysisState, requests, uncaught, selectedNode,
                   resolvedLinks, gen>>

\* lines 96-97: the round is over, i++ and the next shuffle
RunNextRound ==
    /\ run.pc = "visit"
    /\ run.round < CommunityIters
    /\ run.visited = 1..Len(graphData.nodes)
    /\ run' = [run EXCEPT !.round = @ + 1, !.visited = {}]
    /\ UNCHANGED <<edges, pc, runs, graphData, metrics, file, analysisReport,
                   analysisState, requests, uncaught, selectedNode,
                   resolvedLinks, gen>>

\* lines 127-147: group ids, global metrics and the returned object
RunEnd ==
    /\ run.pc = "visit"
    /\ run.round = CommunityIters
    /\ LET resultFresh ==
               groupsAndMetrics(FreshNodes, buildGraphFromLinks(edges).links,
                                run.labels)
           resultAgain ==
               groupsAndMetrics(graphData.nodes, graphData.links,
                                run.labelsAgain)
       IN  /\ run' = [pc |-> "done", round |-> run.round,
                      visited |-> run.visited, left |-> run.left,
                      labels |-> run.labels,
                      labelsAgain |-> run.labelsAgain,
                      resultFresh |-> resultFresh]
           /\ graphData' = [graphData EXCEPT !.nodes = resultAgain.updatedNodes]
           /\ metrics' = resultAgain.metrics
    /\ runs' = runs + 1
    /\ UNCHANGED <<edges, pc, file, analysisReport, analysisState, requests,
                   uncaught, selectedNode, resolvedLinks, gen>>

NextRun ==
    \/ Build
    \/ run.pc = "idle" /\ runs = 0 /\ Calc
    \/ RunBegin
    \/ RunVisit
    \/ RunNextRound
    \/ RunEnd

SpecRun == InitRun /\ [][NextRun]_vars

(***************************************************************************)
(* Properties of one calculateMetrics call, checked under SpecRun.         *)
(***************************************************************************)
Running == run.pc \in {"visit", "done"}

Done == run.pc = "done"

RunRange == 1..Len(Nodes)

\* C11: a calculateMetrics call on node objects that an earlier call has
\* written to and the call on freshly built node objects, given the same
\* visiting orders, hold the same labels at every step and end with the
\* same degree, inDegree, outDegree, rank and group on every node and the
\* same metrics; a re-run with the choices of the previous run therefore
\* reproduces its results.
C11_RerunReproduces ==
    /\ Running => run.labelsAgain = run.labels
    /\ (run.pc = "visit" /\ run.round = 0 /\ run.visited = {}) =>
          LET fresh == FreshNodes
          IN  \A i \in RunRange :
                  /\ Nodes[i].id = fresh[i].id
                  /\ Nodes[i].degree = fresh[i].degree
                  /\ Nodes[i].inDegree = fresh[i].inDegree
                  /\ Nodes[i].outDegree = fresh[i].outDegree
                  /\ Nodes[i].pagerank = fresh[i].pagerank
    /\ Done =>
          /\ Nodes = run.resultFresh.updatedNodes
          /\ metrics = run.resultFresh.metrics

\* the call ran on nodes an earlier call had written to: a node entered it
\* with group 1 and a non-zero degree where a freshly built node has the
\* initial 0, and a duplicate edge makes the degrees left on the nodes matter
C11_Witness ==
    /\ Done
    /\ runs = 2
    /\ \E i \in RunRange : run.left[i].group = 1 /\ run.left[i].degree = 2
    /\ \E j, k \in 1..Len(edges) : j # k /\ edges[j] = edges[k]

\* the labels the loop body for node v pushes, in the order of the scan
Scan(v) ==
    NeighborLabels(Nodes, graphData.links, run.labelsAgain, Nodes[v].id, 1)

CountUpTo(nl, x, k) == Cardinality({j \in 1..k : nl[j] = x})

Total(nl, x) == CountUpTo(nl, x, Len(nl))

HighestCount(nl) ==
    CHOOSE m \in 1..Len(nl) :
        /\ \E j \in 1..Len(nl) : Total(nl, nl[j]) = m
        /\ \A j \in 1..Len(nl) : Total(nl, nl[j]) <= m

\* the position of the scan at which the count of x reaches the highest count
ReachedAt(nl, x) ==
    CHOOSE k \in 1..Len(nl) :
        /\ CountUpTo(nl, x, k) = HighestCount(nl)
        /\ \A h \in 1..(k - 1) : CountUpTo(nl, x, h) < HighestCount(nl)

Leaders(nl) == {nl[j] : j \in {i \in 1..Len(nl) : Total(nl, nl[i]) = HighestCount(nl)}}

Winner(nl) ==
    CHOOSE x \in Leaders(nl) :
        \A y \in Leaders(nl) : ReachedAt(nl, x) <= ReachedAt(nl, y)

\* the label node v has after the loop body has run for it
Adopted(v) ==
    IF Len(Scan(v)) = 0 THEN run.labelsAgain[v] ELSE Winner(Scan(v))

\* C18: when the loop body runs for a node with at least one neighbour, the
\* node takes the label of highest frequency among its neighbours' labels
\* and, among labels of equal highest frequency, the one whose count reached
\* that frequency first in the scan of the edge list; a node with no
\* neighbour keeps its label.
C18_AdoptsFirstMostFrequent ==
    [][(run.pc = "visit" /\ run'.pc = "visit") =>
          \A v \in RunRange :
              (v \notin run.visited /\ v \in run'.visited) =>
                  run'.labelsAgain[v] = Adopted(v)]_vars

\* in the first round B is visited first on A -> B, B -> C: its neighbours'
\* labels 0 and 2 occur once each and B takes 0, the first of the scan
C18_Witness ==
    /\ run.pc = "visit"
    /\ edges = <<Link(<<"A">>, <<"B">>), Link(<<"B">>, <<"C">>)>>
    /\ run.round = 0
    /\ run.visited = {2}
    /\ run.labelsAgain = <<0, 0, 2>>

\* C19: every round visits every node exactly once, one node per step, and
\* the step for a node reads its neighbours' labels from the one label store
\* as the earlier steps of the same round have left it and writes that
\* node's entry only; a round ends only when all nodes have been visited,
\* and the group ids are assigned only after the fifth round.
C19_OneStoreWithinRound ==
    [][run.pc = "visit" =>
          /\ (run'.pc = "visit" /\ run'.round = run.round) =>
                \E v \in RunRange \ run.visited :
                    /\ run'.visited = run.visited \cup {v}
                    /\ run'.labelsAgain
                          = [run.labelsAgain EXCEPT ![v] = Adopted(v)]
          /\ run'.round # run.round =>
                /\ run.visited = RunRange
                /\ run'.round = run.round + 1
                /\ run'.visited = {}
                /\ run'.labelsAgain = run.labelsAgain
          /\ run'.pc = "done" =>
                /\ run.round = CommunityIters
                /\ run'.labelsAgain = run.labelsAgain]_vars

\* in the first round on A -> B, B -> C, A was visited before B: B read the
\* label 1 that A had just taken, where the labels of the round's start
\* would have given it 0
C19_Witness ==
    /\ run.pc = "visit"
    /\ edges = <<Link(<<"A">>, <<"B">>), Link(<<"B">>, <<"C">>)>>
    /\ run.round = 0
    /\ run.visited = {1, 2}
    /\ run.labelsAgain = <<1, 1, 2>>

GroupOf(i) == Nodes[i].group

\* C20: with the nodes scanned in construction order, the first node has
\* group 0, the group of a node is at most one more than the largest group
\* before it, and two nodes have the same group exactly when their final
\* labels are equal.
C20_GroupsInOrderOfAppearance ==
    Done =>
        /\ \A v \in RunRange :
              /\ GroupOf(v) >= 0
              /\ v = 1 => GroupOf(v) = 0
              /\ v > 1 => \E u \in 1..(v - 1) : GroupOf(v) <= GroupOf(u) + 1
        /\ \A u, v \in RunRange :
              GroupOf(u) = GroupOf(v) <=> run.labelsAgain[u] = run.labelsAgain[v]

\* two communities whose final labels are 1 and 2 get the groups 0 and 1
C20_Witness ==
    /\ Done
    /\ run.labelsAgain = <<1, 1, 2>>
    /\ GroupOf(1) = 0 /\ GroupOf(2) = 0 /\ GroupOf(3) = 1

NodeSetIsEndpointSet(g) ==
    /\ \A i, j \in 1..Len(g.nodes) : g.nodes[i].id = g.nodes[j].id => i = j
    /\ NodeIdsOf(g) = EndpointsOf(g.links)

\* C12: the node set buildGraphFromLinks returns is exactly the set of ids
\* that occur as source or target of an edge of its input: ids are pairwise
\* distinct, every endpoint is a node and every node is an endpoint; the
\* same holds for the graph a load hands to calculateMetrics and for the
\* graph generateSampleData returns.
C12_NodesAreTheEndpoints ==
    /\ NodeSetIsEndpointSet(graphData)
    /\ pc # "input" => NodeIdsOf(graphData) = EndpointsOf(edges)
    /\ gen.pc = "done" => NodeSetIsEndpointSet(gen.result)

C12_Witness ==
    /\ pc = "built"
    /\ Len(edges) = 3
    /\ Len(Nodes) = 2
    /\ \E k \in 1..3 : SelfLoop(edges[k])

OutCount(links, id) == Cardinality({k \in 1..Len(links) : links[k].source = id})

InCount(links, id) == Cardinality({k \in 1..Len(links) : links[k].target = id})

\* C13: buildGraphFromLinks returns the input edge list unchanged, in order
\* and multiplicity; after calculateMetrics every edge, duplicates and
\* self-loops included, counts in edgeCount, in the out-degree of its source,
\* in the in-degree of its target and in the numerator of density.
C13_EdgesKeptAndCounted ==
    /\ pc # "input" => graphData.links = edges
    /\ Computed =>
          /\ metrics.edgeCount = Len(edges)
          /\ \A i \in NodeRange :
                /\ Nodes[i].outDegree = OutCount(edges, Nodes[i].id)
                /\ Nodes[i].inDegree = InCount(edges, Nodes[i].id)
                /\ Nodes[i].degree = OutCount(edges, Nodes[i].id)
                                       + InCount(edges, Nodes[i].id)
          /\ metrics.density
                = Quot(Len(edges), Len(Nodes) * (Len(Nodes) - 1))

C13_Witness ==
    /\ Computed
    /\ edges = <<Link(<<"A">>, <<"A">>), Link(<<"A">>, <<"B">>),
                 Link(<<"A">>, <<"B">>)>>
    /\ metrics.edgeCount = 3
    /\ Nodes[1].outDegree = 3 /\ Nodes[1].degree = 4
    /\ metrics.density = Quot(3, 2)

Triangle ==
    <<Link(<<"A">>, <<"B">>), Link(<<"B">>, <<"C">>), Link(<<"C">>, <<"A">>)>>

BigEq(a, b) == BigLeq(a, b) /\ BigLeq(b, a)

\* every rank is 1/N (numerator * N = scale * N) at rk and after each later
\* round of the PageRank loop, up to round PageRankIters
RECURSIVE UniformFrom(_, _, _, _)
UniformFrom(nodes, links, L, rk) ==
    /\ \A i \in 1..Len(nodes) : BigEq(rk.rank[i], rk.scale)
    /\ \/ rk.round = PageRankIters
       \/ UniformFrom(nodes, links, L, RankRound(nodes, links, L, rk))

RanksUniformEachRound ==
    UniformFrom(Nodes, graphData.links, OutLcm(Nodes, 1),
                [rank |-> Tabulate(LAMBDA i : <<1>>, Len(Nodes)),
                 scale |-> <<1>>, round |-> 0])

SameQuot(q, a, b) == q.kind = "num" /\ q.num * b = a * q.den

\* C17: for the triangle [(A,B),(B,C),(C,A)] the pipeline gives N = 3,
\* E = 3, density 1/2, avgDegree 1, in-degree 1, out-degree 1 and degree 2
\* on every node, and ranks that are all exactly 1/3 after each of the 20
\* rounds.
C17_Triangle ==
    (Computed /\ edges = Triangle) =>
        /\ metrics.nodeCount = 3
        /\ metrics.edgeCount = 3
        /\ SameQuot(metrics.density, 1, 2)
        /\ SameQuot(metrics.avgDegree, 1, 1)
        /\ \A i \in NodeRange :
              /\ Nodes[i].inDegree = 1
              /\ Nodes[i].outDegree = 1
              /\ Nodes[i].degree = 2
              /\ BigEq(BigMul(Nodes[i].pagerank.num, 3), Nodes[i].pagerank.den)
        /\ RanksUniformEachRound

C17_Witness ==
    /\ Computed
    /\ edges = Triangle
    /\ metrics.nodeCount = 3
    /\ BigEq(BigMul(Nodes[1].pagerank.num, 3), Nodes[1].pagerank.den)

\* the counters the degree step leaves when the edge list stops after its
\* first k edges
DegreesAfter(k) == computeDegrees(Nodes, SubSeq(graphData.links, 1, k))

\* what edge e adds to a counter of the node with this id
AddsOut(e, id) == IF e.source = id THEN 1 ELSE 0

AddsIn(e, id) == IF e.target = id THEN 1 ELSE 0

\* C21: the degree step starts from counters at 0, whatever the nodes held,
\* and edge by edge adds 1 to outDegree and degree of the source and 1 to
\* inDegree and degree of the target: a self-loop (v,v) adds 1 to
\* inDegree(v), 1 to outDegree(v) and 2 to degree(v).  The nodes of a
\* computed graph carry the counters reached after the last edge.
C21_DegreeStepPerEdge ==
    pc # "input" =>
        /\ \A i \in NodeRange :
              /\ DegreesAfter(0)[i].outDegree = 0
              /\ DegreesAfter(0)[i].inDegree = 0
              /\ DegreesAfter(0)[i].degree = 0
        /\ \A k \in 1..Len(graphData.links) :
              LET e == graphData.links[k]
                  before == DegreesAfter(k - 1)
                  after == DegreesAfter(k)
              IN  \A i \in NodeRange :
                      /\ after[i].outDegree
                           = before[i].outDegree + AddsOut(e, Nodes[i].id)
                      /\ after[i].inDegree
                           = before[i].inDegree + AddsIn(e, Nodes[i].id)
                      /\ after[i].degree
                           = before[i].degree + AddsOut(e, Nodes[i].id)
                                              + AddsIn(e, Nodes[i].id)
                      /\ (e.source = e.target /\ e.source = Nodes[i].id) =>
                             after[i].degree = before[i].degree + 2
        /\ Computed =>
              \A i \in NodeRange :
                  LET last == DegreesAfter(Len(graphData.links))[i]
                  IN  /\ Nodes[i].outDegree = last.outDegree
                      /\ Nodes[i].inDegree = last.inDegree
                      /\ Nodes[i].degree = last.degree

\* a second run on a node with one self-loop and one edge to another node
C21_Witness ==
    /\ Computed
    /\ runs = 2
    /\ edges = <<Link(<<"A">>, <<"A">>), Link(<<"A">>, <<"B">>)>>
    /\ Nodes[1].inDegree = 1 /\ Nodes[1].outDegree = 2 /\ Nodes[1].degree = 3
    /\ Nodes[2].inDegree = 1 /\ Nodes[2].outDegree = 0 /\ Nodes[2].degree = 1

\* nodes i and j are the two ends of some edge
Adjacent(i, j) ==
    \E k \in 1..Len(edges) :
        \/ edges[k].source = Nodes[i].id /\ edges[k].target = Nodes[j].id
        \/ edges[k].source = Nodes[j].id /\ edges[k].target = Nodes[i].id

\* the nodes reached from S along edges taken in either direction
RECURSIVE ReachedFrom(_)
ReachedFrom(S) ==
    LET more == S \cup {j \in NodeRange : \E i \in S : Adjacent(i, j)}
    IN  IF more = S THEN S ELSE ReachedFrom(more)

\* the connected component of node i in the undirected graph of the edges
ComponentOf(i) == ReachedFrom({i})

\* C24: after community detection, whatever the visiting orders, two nodes
\* of different connected components of the undirected graph of the edge list
\* have different community ids; and on a graph with a node the number k of
\* communities satisfies 1 <= k <= N.
C24_CommunitiesWithinComponents ==
    Computed =>
        /\ \A i, j \in NodeRange :
              j \notin ComponentOf(i) => Nodes[i].group # Nodes[j].group
        /\ Len(Nodes) > 0 =>
              /\ CommunityCount = Cardinality(GroupIds)
              /\ 1 <= CommunityCount
              /\ CommunityCount <= Len(Nodes)

\* two components of two nodes each, each one a community
C24_Witness ==
    /\ Computed
    /\ edges = <<Link(<<"A">>, <<"B">>), Link(<<"C">>, <<"D">>)>>
    /\ ComponentOf(1) = {1, 2}
    /\ Nodes[1].group = Nodes[2].group
    /\ Nodes[3].group = Nodes[4].group
    /\ CommunityCount = 2

\* the sum of a counter over the first k nodes
RECURSIVE DegreeSum(_, _)
DegreeSum(counter, k) ==
    IF k = 0 THEN 0 ELSE Nodes[k][counter] + DegreeSum(counter, k - 1)

\* C25: after the degree step on a graph built by buildGraphFromLinks from
\* E edges, the out-degrees add up to E, the in-degrees add up to E and the
\* degrees add up to 2E: both ends of every edge are in the node map, so no
\* edge is skipped.
C25_DegreeSums ==
    /\ pc # "input" =>
          \A k \in 1..Len(edges) :
              /\ NodeIdx(Nodes, edges[k].source) # 0
              /\ NodeIdx(Nodes, edges[k].target) # 0
    /\ Computed =>
          /\ DegreeSum("outDegree", Len(Nodes)) = Len(edges)
          /\ DegreeSum("inDegree", Len(Nodes)) = Len(edges)
          /\ DegreeSum("degree", Len(Nodes)) = 2 * Len(edges)

\* three edges, a self-loop among them, on three nodes
C25_Witness ==
    /\ Computed
    /\ Len(edges) = 3
    /\ Len(Nodes) = 3
    /\ \E k \in 1..3 : edges[k].source = edges[k].target
    /\ DegreeSum("outDegree", 3) = 3
    /\ DegreeSum("degree", 3) = 6

(***************************************************************************)
(* generateSampleData (graphUtils.ts 150-204), under SpecGen.              *)
(* gen holds the locals of the call: n, nodes, links, the loop index i,    *)
(* degrees, totalDegree, addedLinks and the returned GraphData.            *)
(***************************************************************************)
m0 == 5
targetLinks == 2

UserId(i) == <<"User_", i>>

\* for (let j = i + 1; j < m0; j++) links.push(User_i -> User_j)
RECURSIVE SeedLinksOf(_, _)
SeedLinksOf(i, j) ==
    IF j >= m0 THEN <<>>
    ELSE <<Link(UserId(i), UserId(j))>> \o SeedLinksOf(i, j + 1)

\* the seed loop from index i on: [nodes, links] appended to acc
RECURSIVE SeedLoop(_, _)
SeedLoop(i, acc) ==
    IF i >= m0 THEN acc
    ELSE SeedLoop(i + 1,
             [nodes |-> Append(acc.nodes, NewNode(UserId(i))),
              links |-> acc.links \o SeedLinksOf(i, i + 1)])

\* links.filter(l => l.source === id || l.target === id).length + 1
SmoothedDegree(links, id) ==
    Cardinality({k \in 1..Len(links) :
                    links[k].source = id \/ links[k].target = id}) + 1

DegreesOf(nodes, links) ==
    Tabulate(LAMBDA k : SmoothedDegree(links, nodes[k].id), Len(nodes))

RECURSIVE SumSeq(_, _)
SumSeq(seq, k) == IF k > Len(seq) THEN 0 ELSE seq[k] + SumSeq(seq, k + 1)

\* The walk over the cumulative weights for rand = rand2 / 2: the first
\* index j (1-based) among all nodes but the last with cumulative >= rand,
\* 0 when the loop ends without a pick.
RECURSIVE PickFrom(_, _, _, _)
PickFrom(degrees, rand2, j, cumulative) ==
    IF j > Len(degrees) - 1 THEN 0
    ELSE IF 2 * (cumulative + degrees[j]) >= rand2 THEN j
    ELSE PickFrom(degrees, rand2, j + 1, cumulative + degrees[j])

\* variant: the walk goes over every node, the new node included
PickIncludingSelf(degrees, rand2) == PickFrom(degrees \o <<0>>, rand2, 1, 0)

\* variant: the walk stops at the first node whatever rand is
PickFirst(degrees, rand2) == 1

Pick(degrees, rand2) == PickFrom(degrees, rand2, 1, 0)

\* a variant of LinkExists that looks for the link in one direction only
LinkExistsFromTarget(links, newNodeId, targetId) ==
    \E k \in 1..Len(links) :
        links[k].source = targetId /\ links[k].target = newNodeId

\* links.some(l => (new -> target) || (target -> new))
LinkExists(links, newNodeId, targetId) ==
    \E k \in 1..Len(links) :
        \/ links[k].source = newNodeId /\ links[k].target = targetId
        \/ links[k].source = targetId /\ links[k].target = newNodeId

GenLocals(n) ==
    [pc |-> "seed", n |-> n, nodes |-> <<>>, links |-> <<>>, i |-> 0,
     degrees |-> <<>>, totalDegree |-> 0, addedLinks |-> 0,
     result |-> EmptyGraph]

InitGen ==
    /\ gen \in {GenLocals(n) : n \in 0..MaxN}
    /\ edges = <<>>
    /\ pc = "input"
    /\ runs = 0
    /\ graphData = EmptyGraph
    /\ metrics = INITIAL_METRICS
    /\ file = <<>>
    /\ analysisReport = ""
    /\ analysisState = "IDLE"
    /\ requests = <<>>
    /\ uncaught = "none"
    /\ selectedNode = NoNode
    /\ resolvedLinks = {}
    /\ run = RunIdle

GenUnchanged ==
    UNCHANGED <<edges, pc, runs, graphData, metrics, file, analysisReport,
                analysisState, requests, uncaught, selectedNode,
                resolvedLinks, run>>

\* lines 156-162: the complete graph on m0 nodes
GenSeed ==
    /\ gen.pc = "seed"
    /\ LET seeded == SeedLoop(0, [nodes |-> <<>>, links |-> <<>>])
       IN  gen' = [gen EXCEPT !.pc = "grow", !.nodes = seeded.nodes,
                              !.links = seeded.links, !.i = m0]
    /\ GenUnchanged

\* lines 165-178: a growth step begins
GenGrowBegin ==
    /\ gen.pc = "grow"
    /\ gen.i < gen.n
    /\ LET nodes == Append(gen.nodes, NewNode(UserId(gen.i)))
           degrees == DegreesOf(nodes, gen.links)
       IN  gen' = [gen EXCEPT !.pc = "draw", !.nodes = nodes,
                              !.degrees = degrees,
                              !.totalDegree = SumSeq(degrees, 1),
                              !.addedLinks = 0]
    /\ GenUnchanged

\* lines 180-200: one pass of the while loop, rand = rand2 / 2
GenDraw ==
    /\ gen.pc = "draw"
    /\ gen.addedLinks < targetLinks
    /\ \E rand2 \in 0..(2 * gen.totalDegree - 1) :
          LET j == Pick(gen.degrees, rand2)
              newNodeId == UserId(gen.i)
          IN  IF j # 0 /\ ~LinkExists(gen.links, newNodeId, gen.nodes[j].id)
              THEN gen' = [gen EXCEPT
                              !.links = Append(@, Link(newNodeId, gen.nodes[j].id)),
                              !.addedLinks = @ + 1]
              ELSE gen' = gen
    /\ GenUnchanged

\* the while loop ends, i++
GenGrowEnd ==
    /\ gen.pc = "draw"
    /\ gen.addedLinks >= targetLinks
    /\ gen' = [gen EXCEPT !.pc = "grow", !.i = @ + 1]
    /\ GenUnchanged

\* line 203: return buildGraphFromLinks(links)
GenReturn ==
    /\ gen.pc = "grow"
    /\ gen.i >= gen.n
    /\ gen' = [gen EXCEPT !.pc = "done",
                          !.result = buildGraphFromLinks(gen.links)]
    /\ GenUnchanged

NextGen == GenSeed \/ GenGrowBegin \/ GenDraw \/ GenGrowEnd \/ GenReturn

SpecGen == InitGen /\ [][NextGen]_vars

\* C4: generateSampleData(n) returns a graph with exactly n nodes, for
\* every requested n, also for n below the seed size 5.
C4_NodeCountIsRequested ==
    gen.pc = "done" => Len(gen.result.nodes) = gen.n

NewId == UserId(gen.i)

\* the links that touch the node added in the current growth step
NewLinks ==
    {k \in 1..Len(gen.links) :
        gen.links[k].source = NewId \/ gen.links[k].target = NewId}

OlderIds == {gen.nodes[k].id : k \in 1..(Len(gen.nodes) - 1)}

GrowthStepFinished == gen.pc = "draw" /\ gen.addedLinks >= targetLinks

\* C10: when the growth step of a new node finishes, the node has exactly
\* 2 incident edges, both from the new node to 2 distinct nodes that
\* existed before it.
C10_NewNodeHasTwoLinks ==
    GrowthStepFinished =>
        /\ Cardinality(NewLinks) = targetLinks
        /\ \A k \in NewLinks :
              /\ gen.links[k].source = NewId
              /\ gen.links[k].target \in OlderIds
              /\ gen.links[k].target # NewId
        /\ \A j, k \in NewLinks :
              j # k => gen.links[j].target # gen.links[k].target

C10_Witness ==
    /\ GrowthStepFinished
    /\ gen.i = m0 + 1
    /\ Cardinality(NewLinks) = 2
    /\ \E k \in NewLinks : gen.links[k].target = UserId(m0)

\* SpecGenFair: the loops keep running, and a pass of the while loop that
\* adds a link is taken eventually while one is possible (a pass that adds
\* none leaves every local as it was).
SpecGenFair ==
    /\ SpecGen
    /\ WF_vars(GenSeed \/ GenGrowBegin \/ GenGrowEnd)
    /\ WF_vars(GenDraw)

\* the for loop over the remaining nodes has ended: what is left of the call
\* is its return statement (line 203), or nothing
LoopsEnded == (gen.pc = "grow" /\ gen.i >= gen.n) \/ gen.pc = "done"

\* the older nodes the new node has no link with yet
Unlinked == {id \in OlderIds : ~LinkExists(gen.links, NewId, id)}

\* some value of rand makes the pass add a link
SomeDrawAdds ==
    \E rand2 \in 0..(2 * gen.totalDegree - 1) :
        LET j == Pick(gen.degrees, rand2)
        IN  j # 0 /\ gen.nodes[j].id \in Unlinked

InLoop == gen.pc = "draw" /\ gen.addedLinks < targetLinks

\* C22: generateSampleData(n) terminates for every n >= 5 when a draw that
\* selects a not yet linked node eventually occurs.  While the retry loop of
\* a growth step runs, at least 2 older nodes less the links already added
\* are unlinked and some draw selects one; a pass adds one link from the new
\* node to an unlinked node or changes nothing; the loop is left with
\* exactly 2 links added; every loop of the call comes to its end.
C22_GeneratorTerminates ==
    /\ [](InLoop =>
            /\ Cardinality(Unlinked) >= targetLinks - gen.addedLinks
            /\ gen.addedLinks = 0 => Cardinality(Unlinked) >= 2
            /\ SomeDrawAdds)
    /\ []((gen.pc = "draw") => gen.addedLinks <= targetLinks)
    /\ [][InLoop =>
            \/ gen' = gen
            \/ \E id \in Unlinked :
                  gen' = [gen EXCEPT !.links = Append(@, Link(NewId, id)),
                                     !.addedLinks = @ + 1]]_vars
    /\ [][(gen.pc = "draw" /\ gen'.pc # "draw") =>
            gen.addedLinks = targetLinks]_vars
    /\ (gen.n >= m0 /\ gen.pc = "seed") ~> LoopsEnded

\* the call for n = 7 has returned after two growth steps
C22_Witness ==
    /\ gen.pc = "done"
    /\ gen.n = m0 + 2
    /\ gen.addedLinks = targetLinks
    /\ Len(gen.links) = 14

\* the number in the id User_<number>
UserNum(id) == id[2]

SeedLinkCount == (m0 * (m0 - 1)) \div 2

\* C26: for every n >= 5 and every sequence of draws the graph returned by
\* generateSampleData(n) has exactly 10 + 2 * (n - 5) edges, no self-loop
\* and no two edges on the same unordered pair of nodes; the first 5 nodes
\* form a complete graph; the seed edges go from the lower to the higher
\* index and the growth edges from the new node to an older one, so User_4
\* is the source of no edge.
C26_SampleIsSimple ==
    (gen.pc = "done" /\ gen.n >= m0) =>
        LET links == gen.result.links
            range == 1..Len(links)
        IN  /\ Len(links) = SeedLinkCount + targetLinks * (gen.n - m0)
            /\ Len(gen.result.nodes) = gen.n
            /\ \A k \in range : links[k].source # links[k].target
            /\ \A j, k \in range :
                  j # k => {links[j].source, links[j].target}
                             # {links[k].source, links[k].target}
            /\ \A a, b \in 0..(m0 - 1) :
                  a < b => \E k \in range : links[k] = Link(UserId(a), UserId(b))
            /\ \A k \in range :
                  IF k <= SeedLinkCount
                  THEN /\ UserNum(links[k].source) < UserNum(links[k].target)
                       /\ UserNum(links[k].target) < m0
                  ELSE /\ UserNum(links[k].source) >= m0
                       /\ UserNum(links[k].target) < UserNum(links[k].source)
            /\ OutCount(links, UserId(m0 - 1)) = 0

\* the graph returned for n = 7 links User_6 to User_5 and to User_4
C26_Witness ==
    /\ gen.pc = "done"
    /\ gen.n = m0 + 2
    /\ gen.result.links[13] = Link(UserId(m0 + 1), UserId(m0))
    /\ gen.result.links[14] = Link(UserId(m0 + 1), UserId(m0 - 1))
    /\ InCount(gen.result.links, UserId(m0 - 1)) >= m0

(***************************************************************************)
(* CSV ingestion: reader.onload of handleFileUpload (App.tsx 52-67).       *)
(* A text is a sequence of characters.                                     *)
(***************************************************************************)
Whitespace == {" ", "\t", "\r", "\n"}

\* String.prototype.split(sep) for a one-character separator
RECURSIVE SplitFrom(_, _, _, _)
SplitFrom(text, sep, k, current) ==
    IF k > Len(text) THEN <<current>>
    ELSE IF text[k] = sep
         THEN <<current>> \o SplitFrom(text, sep, k + 1, <<>>)
         ELSE SplitFrom(text, sep, k + 1, Append(current, text[k]))

Split(text, sep) == SplitFrom(text, sep, 1, <<>>)

RECURSIVE TrimStart(_)
TrimStart(t) ==
    IF t # <<>> /\ Head(t) \in Whitespace THEN TrimStart(Tail(t)) ELSE t

RECURSIVE TrimEnd(_)
TrimEnd(t) ==
    IF t # <<>> /\ t[Len(t)] \in Whitespace
    THEN TrimEnd(SubSeq(t, 1, Len(t) - 1)) ELSE t

\* String.prototype.trim
Trim(t) == TrimEnd(TrimStart(t))

\* lines.slice(1)
Slice1(seq) == IF seq = <<>> THEN <<>> ELSE Tail(seq)

RECURSIVE Filter(_, _, _)
Filter(seq, Keep(_), k) ==
    IF k > Len(seq) THEN <<>>
    ELSE (IF Keep(seq[k]) THEN <<seq[k]>> ELSE <<>>) \o Filter(seq, Keep, k + 1)

\* const [source, target] = line.split(','): target is undefined (here the
\* field "missing") when the line holds no comma
Destructure(line) ==
    LET parts == Split(line, ",")
    IN  [source |-> parts[1], hasTarget |-> Len(parts) >= 2,
         target |-> IF Len(parts) >= 2 THEN parts[2] ELSE <<>>]

\* the .map callback: target.trim() throws a TypeError on undefined
RowThrows(line) == ~Destructure(line).hasTarget

RowLink(line) ==
    Link(Trim(Destructure(line).source), Trim(Destructure(line).target))

NonBlank(line) == Trim(line) # <<>>

BothEnds(l) == l.source # <<>> /\ l.target # <<>>

\* the rows the parser keeps for mapping: every non-blank line but the first
KeptLines(text) == Filter(Slice1(Split(text, "\n")), NonBlank, 1)

\* the outcome of lines 53-63: the links, or the exception thrown
ParseEdgeList(text) ==
    LET kept == KeptLines(text)
    IN  IF \E k \in 1..Len(kept) : RowThrows(kept[k])
        THEN [threw |-> TRUE, links |-> <<>>]
        ELSE [threw |-> FALSE,
              links |-> Filter(Tabulate(LAMBDA k : RowLink(kept[k]), Len(kept)),
                               BothEnds, 1)]

(***************************************************************************)
(* The files offered to the upload input: with or without the header line, *)
(* then up to MaxRows rows made of the fields below, with or without a     *)
(* comma (the row <<>> is a blank line).                                   *)
(***************************************************************************)
HeaderLine ==
    <<"s", "o", "u", "r", "c", "e", ",", "t", "a", "r", "g", "e", "t">>

Fields == {<<>>, <<"A">>, <<" ", "B">>}

RowLines == {f \o <<",">> \o g : f \in Fields, g \in Fields} \cup Fields

RECURSIVE JoinLines(_, _)
JoinLines(lines, k) ==
    IF k > Len(lines) THEN <<>>
    ELSE IF k = Len(lines) THEN lines[k]
    ELSE lines[k] \o <<"\n">> \o JoinLines(lines, k + 1)

RowLists == UNION {[1..n -> RowLines] : n \in 0..MaxRows}

Files ==
    {JoinLines(rows, 1) : rows \in RowLists}
        \cup {JoinLines(<<HeaderLine>> \o rows, 1) : rows \in RowLists}

(***************************************************************************)
(* analyzeNetworkWithGemini (geminiService.ts 6-51)                        *)
(***************************************************************************)
FallbackMessage ==
    "Unable to generate AI analysis at this time. Please check your API key."

FailedMessage == "Analysis generation failed."

\* what ai.models.generateContent can do: return text (possibly empty or
\* undefined, here ""), or throw / reject
CollaboratorOutcomes ==
    {[kind |-> "text", text |-> "## Network Structure"],
     [kind |-> "text", text |-> ""],
     [kind |-> "fails", text |-> ""]}

\* a variant without the try / catch: the failure rejects the promise
analyzeWithoutCatch(outcome) ==
    IF outcome.kind = "fails"
    THEN [settled |-> "rejected", value |-> ""]
    ELSE [settled |-> "resolved",
          value |-> IF outcome.text = "" THEN FailedMessage ELSE outcome.text]

\* how the promise returned by analyzeNetworkWithGemini settles
analyzeNetworkWithGemini(outcome) ==
    IF outcome.kind = "fails"
    THEN [settled |-> "resolved", value |-> FallbackMessage]
    ELSE [settled |-> "resolved",
          value |-> IF outcome.text = "" THEN FailedMessage ELSE outcome.text]

(***************************************************************************)
(* Spec: the App component.                                                *)
(***************************************************************************)
Init ==
    /\ file \in Files
    /\ graphData = EmptyGraph
    /\ metrics = INITIAL_METRICS
    /\ analysisReport = ""
    /\ analysisState = "IDLE"
    /\ requests = <<>>
    /\ uncaught = "none"
    /\ selectedNode = NoNode
    /\ resolvedLinks = {}
    /\ edges = <<>>
    /\ pc = "input"
    /\ runs = 0
    /\ gen = GenIdle
    /\ run = RunIdle

AppUnchanged == UNCHANGED <<file, edges, pc, runs, gen, run>>

\* neighborIds of the ego-net filter (NetworkGraph.tsx 107-116)
neighborIds ==
    {selectedNode}
        \cup {graphData.links[k].target : k \in
                {j \in 1..Len(graphData.links) :
                    graphData.links[j].source = selectedNode}}
        \cup {graphData.links[k].source : k \in
                {j \in 1..Len(graphData.links) :
                    graphData.links[j].target = selectedNode}}

\* ids of the nodes NetworkGraph draws (NetworkGraph.tsx 103-119): all of
\* them, or the selected node and its neighbours
displayNodes ==
    LET all == {graphData.nodes[i].id : i \in 1..Len(graphData.nodes)}
    IN  IF selectedNode = NoNode THEN all ELSE all \cap neighborIds

\* positions of the links NetworkGraph draws (NetworkGraph.tsx 104, 119-123):
\* all of them, or those with both ends in neighborIds
displayLinks ==
    IF selectedNode = NoNode THEN 1..Len(graphData.links)
    ELSE {k \in 1..Len(graphData.links) :
            /\ graphData.links[k].source \in neighborIds
            /\ graphData.links[k].target \in neighborIds}

\* a variant of forceLink after which only the links it is given have node
\* objects as ends
forceLinkShownOnly(shown, resolved) == shown

\* forceLink(displayLinks) (NetworkGraph.tsx 145): d3 replaces the source and
\* the target of every link it is given by the node objects, in the link
\* objects themselves, which are those of graphData.links
forceLink(shown, resolved) == resolved \cup shown

\* the drawing effect of NetworkGraph (NetworkGraph.tsx 99-239), which runs
\* when data or selectedNode have changed; resolved are the links of the
\* new data whose ends are node objects already
render(resolved) ==
    resolvedLinks' = IF graphData'.nodes = <<>> THEN resolved
                     ELSE forceLink(displayLinks', resolved)

\* a variant of processGraph that leaves the selection as it is
processGraphKeepSelection(data, r) ==
    /\ graphData' = [nodes |-> r.updatedNodes, links |-> data.links]
    /\ metrics' = r.metrics
    /\ analysisReport' = ""
    /\ analysisState' = "IDLE"
    /\ selectedNode' = selectedNode
    /\ render({})

\* a variant of processGraph that does not install the metrics
processGraphGraphOnly(data, r) ==
    /\ graphData' = [nodes |-> r.updatedNodes, links |-> data.links]
    /\ metrics' = metrics
    /\ analysisReport' = ""
    /\ analysisState' = "IDLE"
    /\ selectedNode' = NoNode
    /\ render({})

\* processGraph (App.tsx 33-40) for one result r of calculateMetrics(data);
\* its five setters take effect together, and the drawing effect follows
processGraph(data, r) ==
    /\ graphData' = [nodes |-> r.updatedNodes, links |-> data.links]
    /\ metrics' = r.metrics
    /\ analysisReport' = ""
    /\ analysisState' = "IDLE"
    /\ selectedNode' = NoNode
    /\ render({})

\* generateSampleData(60) of handleLoadSample (App.tsx 43).  The model loads
\* the sample the generator returns for n = m0, its seed clique, which is
\* also what it returns for every smaller n.
SampleData == SeedLoop(0, [nodes |-> <<>>, links |-> <<>>])

SampleLinks == SampleData.links

\* the graph handleLoadSample hands to processGraph and the results
\* calculateMetrics can give for it
sample == [data |-> SampleData, results |-> calculateMetrics(SampleData)]

\* handleLoadSample (App.tsx 42-45)
handleLoadSample ==
    /\ \E r \in sample.results : processGraph(sample.data, r)
    /\ UNCHANGED <<requests, uncaught>>

\* the body of reader.onload (App.tsx 52-67) as a function of the file text:
\* whether it throws, the graph it builds and the results calculateMetrics
\* can give for that graph
onload ==
    [text \in Files |->
        LET parsed == ParseEdgeList(text)
            rawData == buildGraphFromLinks(parsed.links)
        IN  [threw |-> parsed.threw, rawData |-> rawData,
             results |-> IF parsed.threw THEN {}
                         ELSE calculateMetrics(rawData)]]

\* handleFileUpload (App.tsx 47-69): reader.onload runs on the file's text
handleFileUpload ==
    LET loaded == onload[file]
    IN  IF loaded.threw
        THEN /\ uncaught' = "TypeError"
             /\ UNCHANGED <<graphData, metrics, analysisReport, analysisState,
                            requests, selectedNode, resolvedLinks>>
        ELSE /\ \E r \in loaded.results : processGraph(loaded.rawData, r)
             /\ UNCHANGED <<requests, uncaught>>

\* runGeminiAnalysis up to its await (App.tsx 71-74); the button is
\* disabled while analysisState is PROCESSING (App.tsx 375).  A call in
\* flight is recorded with the counts its prompt is built from and with the
\* outcome the collaborator is going to have for it.
runGeminiAnalysis ==
    /\ analysisState # "PROCESSING"
    /\ Len(requests) < MaxRequests
    /\ IF metrics.nodeCount = 0
       THEN UNCHANGED <<analysisState, requests>>
       ELSE /\ analysisState' = "PROCESSING"
            /\ \E outcome \in CollaboratorOutcomes :
                  requests' = Append(requests,
                                  [nodeCount |-> metrics.nodeCount,
                                   edgeCount |-> metrics.edgeCount,
                                   outcome   |-> outcome])
    /\ UNCHANGED <<graphData, metrics, analysisReport, uncaught, selectedNode,
                   resolvedLinks>>

RemoveAt(seq, k) == SubSeq(seq, 1, k - 1) \o SubSeq(seq, k + 1, Len(seq))

\* the collaborator call of request k completes and runGeminiAnalysis
\* resumes after its await (App.tsx 74-76)
geminiSettles ==
    \E k \in 1..Len(requests) :
        LET report == analyzeNetworkWithGemini(requests[k].outcome)
        IN  /\ requests' = RemoveAt(requests, k)
            /\ IF report.settled = "resolved"
               THEN /\ analysisReport' = report.value
                    /\ analysisState' = "ANALYZED"
                    /\ UNCHANGED uncaught
               ELSE /\ uncaught' = "UnhandledRejection"
                    /\ UNCHANGED <<analysisReport, analysisState>>
            /\ UNCHANGED <<graphData, metrics, selectedNode, resolvedLinks>>

\* click on a drawn node (NetworkGraph.tsx 173-176): select it, or clear the
\* selection when it is the selected node; the drawing effect follows
onNodeClick ==
    /\ \E d \in displayNodes :
          selectedNode' = IF d = selectedNode THEN NoNode ELSE d
    /\ UNCHANGED <<graphData, metrics, analysisReport, analysisState,
                   requests, uncaught>>
    /\ render(resolvedLinks)

\* double click on the background, or the Reset button of the ego-net
\* banner (NetworkGraph.tsx 234-237, 246); the drawing effect follows
clearSelection ==
    /\ graphData.nodes # <<>>
    /\ selectedNode' = NoNode
    /\ UNCHANGED <<graphData, metrics, analysisReport, analysisState,
                   requests, uncaught>>
    /\ render(resolvedLinks)

Next ==
    \/ handleFileUpload /\ AppUnchanged
    \/ runGeminiAnalysis /\ AppUnchanged
    \/ geminiSettles /\ AppUnchanged
    \/ onNodeClick /\ AppUnchanged
    \/ clearSelection /\ AppUnchanged

Spec == Init /\ [][Next]_vars

(***************************************************************************)
(* SpecLoads: the App component with both ways of loading a graph, the     *)
(* sample and the upload of a file that has the header line and rows with  *)
(* a source and a target.                                                  *)
(***************************************************************************)
WellFormedRows == {f \o <<",">> \o g : f \in Fields \ {<<>>}, g \in Fields \ {<<>>}}

WellFormedFiles ==
    {JoinLines(<<HeaderLine>> \o rows, 1) :
        rows \in UNION {[1..n -> WellFormedRows] : n \in 0..MaxRows}}

InitLoads == Init /\ file \in WellFormedFiles

NextLoads ==
    \/ handleLoadSample /\ AppUnchanged
    \/ Next

SpecLoads == InitLoads /\ [][NextLoads]_vars

(***************************************************************************)
(* Properties of the App component, checked under Spec.                    *)
(***************************************************************************)
\* a pipeline run has replaced INITIAL_METRICS
Loaded == metrics.diameter # "-"

\* reader.onload has run: it loaded a graph or it threw
UploadHandled == Loaded \/ uncaught = "TypeError"

\* a row with a non-empty source and a non-empty target
WellFormedRow(line) ==
    /\ Destructure(line).hasTarget
    /\ Trim(Destructure(line).source) # <<>>
    /\ Trim(Destructure(line).target) # <<>>

LinksOfRows(lines) ==
    LET rows == Filter(lines, WellFormedRow, 1)
    IN  Tabulate(LAMBDA k : RowLink(rows[k]), Len(rows))

FileLinesOf(text) == Split(text, "\n")

\* C5: a row whose source or target is empty or missing (a non-blank row
\* without a comma included) is dropped silently: the handler raises no
\* error, the other rows after the header are loaded, and no node has an
\* empty id.
C5_MalformedRowsDropped ==
    UploadHandled =>
        /\ uncaught = "none"
        /\ graphData.links = LinksOfRows(Slice1(FileLinesOf(file)))
        /\ \A i \in NodeRange : Nodes[i].id # <<>>

\* C6: the header is optional: for a file whose first line is a data row,
\* every well-formed row, the first line included, becomes an edge.
C6_HeaderOptional ==
    (Loaded /\ WellFormedRow(FileLinesOf(file)[1])) =>
        metrics.edgeCount = Len(LinksOfRows(FileLinesOf(file)))

\* the report runGeminiAnalysis must install for a collaborator outcome
ExpectedReport(outcome) ==
    IF outcome.kind = "fails" THEN FallbackMessage
    ELSE IF outcome.text = "" THEN FailedMessage
    ELSE outcome.text

C7_Settled(k) ==
    /\ uncaught' = uncaught
    /\ analysisState' = "ANALYZED"
    /\ analysisReport' = ExpectedReport(requests[k].outcome)
    /\ analysisReport' # ""

\* C7: analyzeNetworkWithGemini never rejects: a failing collaborator gives
\* the fallback string, empty text gives a fixed non-empty string, and when
\* the call completes runGeminiAnalysis installs the report and sets the
\* analysis state to ANALYZED, on success and on failure alike.
C7_AnalysisAlwaysCompletes ==
    [][\A k \in 1..Len(requests) :
          (Len(requests') < Len(requests) /\ requests' = RemoveAt(requests, k))
              => C7_Settled(k)]_vars

C7_Witness ==
    /\ analysisState = "ANALYZED"
    /\ analysisReport = FallbackMessage
    /\ requests = <<>>
    /\ uncaught = "none"

(***************************************************************************)
(* Properties of loading and selecting, checked under SpecLoads.           *)
(***************************************************************************)
\* the graph on display is the sample
FromSample == graphData.links = SampleLinks

\* the edge list reader.onload makes of the file
FileLinks == LinksOfRows(Slice1(FileLinesOf(file)))

AllLinks == 1..Len(graphData.links)

\* the state holds what one pipeline run on links gives, results being all
\* the results of that run, and nothing else
Replaced(links, results) ==
    /\ graphData.links = links
    /\ NodeIdsOf(graphData) = EndpointsOf(links)
    /\ \A i \in NodeRange :
          /\ Nodes[i].outDegree = OutCount(links, Nodes[i].id)
          /\ Nodes[i].inDegree = InCount(links, Nodes[i].id)
    /\ \E r \in results : Nodes = r.updatedNodes /\ metrics = r.metrics
    /\ metrics.nodeCount = Cardinality(EndpointsOf(links))
    /\ metrics.edgeCount = Len(links)
    /\ analysisReport = ""
    /\ analysisState = "IDLE"
    /\ selectedNode = NoNode
    /\ resolvedLinks = AllLinks

\* C14: a load, of the sample or of a file, replaces the state: right after
\* processGraph the graph and the metrics are those of one pipeline run on
\* the new edge list, the report is empty, the analysis state is IDLE and
\* no node is selected, whatever the state before the load was.
C14_LoadReplacesState ==
    [][/\ handleLoadSample => Replaced(SampleLinks, sample.results)'
       /\ (handleFileUpload /\ ~onload[file].threw) =>
              \E links \in {FileLinks} : \E loaded \in {onload[file]} :
                  Replaced(links, loaded.results)']_vars

\* the sample has been loaded over a file's graph while a report for that
\* graph was being generated
C14_Witness ==
    /\ FromSample
    /\ analysisState = "IDLE"
    /\ analysisReport = ""
    /\ selectedNode = NoNode
    /\ Len(requests) = 1
    /\ requests[1].nodeCount = 2
    /\ metrics.nodeCount = m0

\* C15: in every state the graph and the metrics on display are those of
\* one completed pipeline run, or the initial ones: nodeCount and edgeCount
\* are the numbers of nodes and links of graphData (0 before the first
\* load), and nodes and metrics are together one result of calculateMetrics.
C15_GraphAndMetricsOfOneRun ==
    /\ metrics.nodeCount = Len(Nodes)
    /\ metrics.edgeCount = Len(graphData.links)
    /\ ~Loaded => graphData = EmptyGraph /\ metrics = INITIAL_METRICS
    /\ Loaded =>
          \E r \in (IF FromSample THEN sample.results
                     ELSE onload[file].results) :
              Nodes = r.updatedNodes /\ metrics = r.metrics

\* a report has been generated for the sample
C15_Witness ==
    /\ FromSample
    /\ metrics.nodeCount = m0
    /\ metrics.edgeCount = Len(SampleLinks)
    /\ analysisState = "ANALYZED"

\* C16: selecting a node, changing the selection and clearing it leave the
\* node objects, the edge list, the representation of the ends of every
\* edge and the metrics as they were.
C16_SelectionLeavesGraph ==
    [][(onNodeClick \/ clearSelection) =>
          /\ graphData' = graphData
          /\ metrics' = metrics
          /\ resolvedLinks' = resolvedLinks]_vars

\* a node is selected whose ego-net leaves a link out, and every link still
\* has node objects as ends
C16_Witness ==
    /\ selectedNode # NoNode
    /\ displayLinks # AllLinks
    /\ resolvedLinks = AllLinks
    /\ displayNodes # NodeIdsOf(graphData)

\* a step puts a non-empty report on display, or moves the state to ANALYZED
InstallsReport ==
    \/ analysisReport' # analysisReport /\ analysisReport' # ""
    \/ analysisState' = "ANALYZED" /\ analysisState # "ANALYZED"

\* request k was started for the graph on display and no load has reset
\* the analysis state since
RequestIsCurrent(k) ==
    /\ analysisState = "PROCESSING"
    /\ requests[k].nodeCount = metrics.nodeCount
    /\ requests[k].edgeCount = metrics.edgeCount

\* C23: a report is put on display, and the state set to ANALYZED, only by
\* a request started for the graph and metrics now loaded: a request
\* started before a later load (which reset the report to "" and the state
\* to IDLE) installs nothing when it completes.
C23_NoStaleReport ==
    [][InstallsReport =>
          \E k \in 1..Len(requests) :
              requests' = RemoveAt(requests, k) /\ RequestIsCurrent(k)]_vars

====
